---- MODULE Spec2Model ----
(***************************************************************************)
(* Model of the diagnostic-tracing core of vmkteam/zenrpc-middleware:      *)
(* the sqlQueryLogger (NextID / Push / Store / Pop and its go-pg hooks)    *)
(* and the WithSQLLogger and WithTiming interceptors.                      *)
(*                                                                         *)
(* Spec        concurrent RPC calls running through WithSQLLogger on one   *)
(*             logger; the inner invocation issues queries, returns or     *)
(*             panics.                                                     *)
(* SpecBuffer  one sqlQueryLogger driven through its exported methods      *)
(*             Push/Store/Pop in arbitrary order.                          *)
(* SpecTiming  one call through WithTiming for every input in the bounds.  *)
(***************************************************************************)
EXTENDS Integers, Sequences, FiniteSets, TLC

\* ------------------------------------------------------------------ bounds
NumCalls == 2
MaxQueries == 2
MaxOps == 5
MaxBufID == 1

\* ------------------------------------------------------- program constants
emptyDebugID == 0
Millisecond == 1000000

VARIABLES
  isDevel,    \* WithSQLLogger/WithTiming argument isDevel
  nextID,     \* sqlQueryLogger.nextID
  data,       \* sqlQueryLogger.data: map[uint64][]sqlQuery
  pc,         \* position of every call inside WithSQLLogger
  req,        \* what zenrpc.RequestFromContext(ctx) yields for the call
  logQuery,   \* local logQuery
  debugID,    \* local debugID
  ctx,        \* the context handed to the inner invocation
  inflight,   \* queries between BeforeQuery and AfterQuery, per call
  issuedQ,    \* number of queries the call has started
  qq,         \* local qq, the result of ql.Pop(debugID)
  inner,      \* response returned by h(ctx, method, params)
  resp,       \* response returned by the interceptor
  asked,      \* how often allowDebugFunc / allowSqlDebugFunc were called
  issued,     \* values returned by NextID, in order
  hookErr,    \* errors AfterQuery returned to the query's caller, per call
  traced,     \* branch the gate of WithSQLLogger took: "", "yes" or "no"
  storeCalls, \* Store calls made for the call's id before its Pop
  raised,     \* value of the panic h raised in the call, <<>> if none
  thrown,     \* value of the panic that left WithSQLLogger, <<>> if none
  hist,       \* SpecBuffer: operations applied to the buffer, in order
  tpc,        \* position of the call inside WithTiming
  tin,        \* WithTiming: the request, the gate's questions, h's response
  twall,      \* WithTiming: time.Since(now) in nanoseconds
  tresp,      \* WithTiming: the response returned
  elog,       \* one call through WithErrorLogger or WithErrorSLog
  sen,        \* one call through WithSentry
  xr,         \* one request through the XRequestID handler
  mu,         \* SpecRace: holder of ql.dataMu, 0 when unlocked
  th,         \* SpecRace: the threads inside Push, Store and Pop
  ql2         \* SpecShared: nextID and data of a second logger on the db

loggerVars == <<nextID, data>>
callVars == <<pc, req, logQuery, debugID, ctx, inflight, issuedQ, qq, inner,
              resp, asked, issued, hookErr, traced, storeCalls>>
bufVars == <<hist>>
panicVars == <<raised, thrown>>
outerVars == <<elog, sen, xr>>
raceVars == <<mu, th>>
sharedVars == <<ql2>>
timingVars == <<tpc, tin, twall, tresp>>
vars == <<isDevel, loggerVars, callVars, bufVars, timingVars, panicVars, outerVars,
          raceVars, sharedVars>>

Calls == 1..NumCalls

\* --------------------------------------------------------------- Go maps
EmptyMap == [k \in {} |-> <<>>]

HasKey(m, k) == k \in DOMAIN m

MapPut(m, k, v) == [x \in (DOMAIN m) \cup {k} |-> IF x = k THEN v ELSE m[x]]

MapDelete(m, k) == [x \in (DOMAIN m) \ {k} |-> m[x]]

\* ------------------------------------------------------- sqlQueryLogger
\* NewSqlQueryLogger: nextID is the zero value, data an empty map.
NewSqlQueryLoggerNextID == 0

NewSqlQueryLoggerData == EmptyMap

\* NextID that does not advance the counter
NextIDStuck(n) == 1

\* atomic.AddUint64(&ql.nextID, 1): the new counter value, also returned.
\* The counter is a uint64 and wraps to 0 after 2^64 - 1 calls; a run of
\* the model issues at most NumCalls ids, so the wrap is out of its reach.
NextID(n) == n + 1

\* Push that keeps a session that is already open
PushKeep(d, id) == IF HasKey(d, id) THEN d ELSE MapPut(d, id, <<>>)

\* ql.data[debugID] = []sqlQuery{}
Push(d, id) == MapPut(d, id, <<>>)

\* Store without the check for an unknown id
StoreAlways(d, id, sq) ==
  MapPut(d, id, Append(IF HasKey(d, id) THEN d[id] ELSE <<>>, sq))

\* Store that puts the new event first
StorePrepend(d, id, sq) == IF ~HasKey(d, id) THEN d ELSE MapPut(d, id, <<sq>> \o d[id])

\* Store on one slice shared by all sessions
StoreShared(d, id, sq) ==
  IF ~HasKey(d, id) THEN d ELSE [x \in DOMAIN d |-> Append(d[x], sq)]

\* append to the session if the key exists, else return without a change
Store(d, id, sq) == IF ~HasKey(d, id) THEN d ELSE MapPut(d, id, Append(d[id], sq))

\* Pop without the delete
PopDataKeep(d, id) == d

\* the map after Pop: the key is deleted if present
PopData(d, id) == IF HasKey(d, id) THEN MapDelete(d, id) ELSE d

\* the value Pop returns: the session, or the nil slice
PopResult(d, id) == IF HasKey(d, id) THEN d[id] ELSE <<>>

\* ------------------------------------------------------------- contexts
\* A context as far as this package reads it: the values under the keys
\* debugIDCtx and sqlGroupCtx, each absent (<<>>) or present (<<v>>).
\* Strings are sequences of characters.
Background == [debugID |-> <<>>, sqlGroup |-> <<>>]

DebugIDFromContext(cx) == IF cx.debugID # <<>> THEN cx.debugID[1] ELSE emptyDebugID

\* a context that does not take the id
NewDebugIDContextLost(cx, id) == cx

NewDebugIDContext(cx, id) == [cx EXCEPT !.debugID = <<id>>]

SqlGroupFromContext(cx) == IF cx.sqlGroup # <<>> THEN cx.sqlGroup[1] ELSE <<>>

\* nesting that puts no separator between the names
NewSqlGroupContextNoSep(cx, group) ==
  [cx EXCEPT !.sqlGroup = <<SqlGroupFromContext(cx) \o group>>]

NewSqlGroupContext(cx, group) ==
  LET groups == SqlGroupFromContext(cx)
      sep == IF groups # <<>> THEN groups \o <<">">> ELSE groups
  IN [cx EXCEPT !.sqlGroup = <<sep \o group>>]

RECURSIVE TrimLeft(_, _)
TrimLeft(s, ch) == IF s # <<>> /\ Head(s) = ch THEN TrimLeft(Tail(s), ch) ELSE s

RECURSIVE TrimRight(_, _)
TrimRight(s, ch) ==
  IF s # <<>> /\ s[Len(s)] = ch THEN TrimRight(SubSeq(s, 1, Len(s) - 1), ch) ELSE s

\* strings.Trim(s, ">")
Trim(s, ch) == TrimRight(TrimLeft(s, ch), ch)

RECURSIVE WithGroups(_, _)
\* the context after nested NewSqlGroupContext calls with the given names
WithGroups(cx, names) ==
  IF names = <<>> THEN cx
  ELSE WithGroups(NewSqlGroupContext(cx, Head(names)), Tail(names))

\* ------------------------------------------------------------ responses
\* zenrpc.Response: Result, Error and the Extensions map, which is nil or a
\* map from keys to interface values; an interface value carries its
\* dynamic type.
NilExtensions == [nil |-> TRUE, m |-> EmptyMap]

MakeExtensions == [nil |-> FALSE, m |-> EmptyMap]

Int64(v) == [t |-> "int64", v |-> v]

SQLValue(s) == [t |-> "[]sqlQuery", v |-> s]

ExtPut(e, k, v) == [nil |-> FALSE, m |-> MapPut(e.m, k, v)]

\* what the wrapped invocation may return
InnerResponses ==
  { [Result |-> "ok", Error |-> 0, Extensions |-> NilExtensions],
    [Result |-> "ok", Error |-> 0,
     Extensions |-> ExtPut(MakeExtensions, "DurationRemote", Int64(40))],
    [Result |-> "", Error |-> 500, Extensions |-> NilExtensions] }

NoResponse == [Result |-> "none", Error |-> 0, Extensions |-> NilExtensions]

\* ------------------------------------------------------------- the gate
\* What zenrpc.RequestFromContext(ctx) yields: no request, a nil request,
\* or an HTTP request; d and s are what allowDebugFunc and
\* allowSqlDebugFunc answer for it.
Requests ==
  { [kind |-> "none", d |-> FALSE, s |-> FALSE],
    [kind |-> "nil", d |-> FALSE, s |-> FALSE] }
  \cup [kind : {"http"}, d : BOOLEAN, s : BOOLEAN]

allowDebugFunc(r) == r.d

allowSqlDebugFunc(r) == r.s

\* !ok || req == nil
RequestMissing(r) == r.kind # "http"

\* the gate without its early returns
SQLLoggerTracedAlways(devel, r) == TRUE

\* WithSQLLogger goes on to NextID / Push / Pop
SQLLoggerTraced(devel, r) ==
  devel \/ (~RequestMissing(r) /\ allowDebugFunc(r))

\* logQuery that is never cleared
SQLLoggerLogQueryAlways(devel, r) == TRUE

\* local logQuery of a traced call
SQLLoggerLogQuery(devel, r) ==
  IF ~devel /\ ~allowSqlDebugFunc(r) THEN FALSE ELSE TRUE

\* calls of allowDebugFunc and allowSqlDebugFunc made by the gate
SQLLoggerAsked(devel, r) ==
  [d |-> IF ~devel /\ ~RequestMissing(r) THEN 1 ELSE 0,
   s |-> IF ~devel /\ ~RequestMissing(r) /\ allowDebugFunc(r) THEN 1 ELSE 0]

\* ------------------------------------------------------------ the hooks
\* Queries the inner invocation may run: the text, whether
\* event.FormattedQuery() fails, and the nested group names of its context.
QueryInputs ==
  { [Query |-> "q1", fmtErr |-> FALSE, groups |-> <<>>],
    [Query |-> "q2", fmtErr |-> FALSE, groups |-> << <<"a">>, <<"b">> >>],
    [Query |-> "q3", fmtErr |-> TRUE, groups |-> <<>>] }

\* elapsed time.Since(startAt) in nanoseconds
Elapsed == {600000, 1700000}

\* BeforeQuery that stamps every query
BeforeQueryStartedAlways(cx) == TRUE

\* BeforeQuery: the stash records a start time only with a debug id
BeforeQueryStarted(cx) == DebugIDFromContext(cx) # emptyDebugID

\* the sqlQuery AfterQuery builds; tag is not a field of the struct, it
\* names the query the event was built from
NewSqlQuery(q, el) ==
  [Query |-> q.Query,
   Group |-> Trim(SqlGroupFromContext(q.cx), ">"),
   Duration |-> IF q.started THEN el ELSE 0,
   tag |-> q.tag]

\* AfterQuery that ignores the error of FormattedQuery
AfterQueryOutcomeNoErr(q) ==
  IF DebugIDFromContext(q.cx) = emptyDebugID THEN "skip" ELSE "store"

\* AfterQuery's verdict: "skip" (no debug id), "error" (formatting
\* failed), "store"
AfterQueryOutcome(q) ==
  IF DebugIDFromContext(q.cx) = emptyDebugID THEN "skip"
  ELSE IF q.fmtErr THEN "error"
  ELSE "store"

\* AfterQuery that writes the event whether or not the session is open
AfterQueryDataAlways(d, q, el) ==
  IF AfterQueryOutcome(q) = "store"
  THEN MapPut(d, DebugIDFromContext(q.cx),
              (IF HasKey(d, DebugIDFromContext(q.cx))
               THEN d[DebugIDFromContext(q.cx)] ELSE <<>>)
              \o <<NewSqlQuery(q, el)>>)
  ELSE d

\* the buffer after AfterQuery
AfterQueryData(d, q, el) ==
  IF AfterQueryOutcome(q) = "store"
  THEN Store(d, DebugIDFromContext(q.cx), NewSqlQuery(q, el))
  ELSE d

\* ----------------------------------------------------- WithSQLLogger
RECURSIVE SumDurationsMs(_)
\* a sum that cuts every duration to whole milliseconds first
SumDurationsMs(s) ==
  IF s = <<>> THEN 0
  ELSE (Head(s).Duration \div Millisecond) * Millisecond + SumDurationsMs(Tail(s))

RECURSIVE SumDurations(_)
SumDurations(s) == IF s = <<>> THEN 0 ELSE Head(s).Duration + SumDurations(Tail(s))

\* lines 406 and 411: a denied call returns h's response as it is
SQLLoggerBypass(r) == r

\* the response WithSQLLogger returns on a traced call
SQLLoggerResponse(r, popped, lq) ==
  LET ext0 == IF r.Extensions.nil THEN MakeExtensions ELSE r.Extensions
      totalSQL == SumDurations(popped)
      ext1 == IF Len(popped) > 0 /\ lq THEN ExtPut(ext0, "SQL", SQLValue(popped)) ELSE ext0
      ext2 == IF Len(popped) > 0
              THEN ExtPut(ext1, "DurationSQL", Int64(totalSQL \div Millisecond))
              ELSE ext1
  IN [r EXCEPT !.Extensions = ext2]

\* ------------------------------------------ responses with their error
\* zenrpc.Response as the error loggers read it: Error is nil (<<>>) or
\* points to a zenrpc.Error with Code, Message and the wrapped Err
\* (<<>> for nil).
NewError(code, msg, err) == <<[Code |-> code, Message |-> msg, Err |-> err]>>

StatusInternalServerError == 500

ErrorResponses ==
  { [Result |-> "ok", Error |-> <<>>] }
  \cup { [Result |-> "", Error |-> NewError(code, "pq: secret", err)] :
            code \in {500, -32603, -1, 0, 400, 404, 501}, err \in {<<>>, <<"sql: no rows">>} }

ZeroResponse == [Result |-> "", Error |-> <<>>]

ErrorLoggerStart ==
  [pc |-> "start", mw |-> "", fn |-> <<>>, inner |-> ZeroResponse,
   out |-> ZeroResponse, prints |-> 0, captures |-> 0]

\* panic and rec hold at most one value; unwinding is true while a panic
\* travels up the stack
SentryStart ==
  [pc |-> "start", hub |-> FALSE, xRequestID |-> "", platform |-> "",
   inner |-> ZeroResponse, panic |-> <<>>, unwinding |-> FALSE, rec |-> <<>>,
   out |-> ZeroResponse, captured |-> <<>>, tags |-> <<>>]

\* incoming is the header as the client sent it
XRequestIDStart ==
  [pc |-> "start", incoming |-> <<>>, header |-> <<>>, requestID |-> <<>>,
   response |-> <<>>, downstream |-> <<>>]

\* the threads that call Push, Store and Pop on one logger
NumThreads == 2

Threads == 1..NumThreads

NoEvent == [Query |-> "", Group |-> <<>>, Duration |-> 0, tag |-> <<0, 0>>]

\* a thread outside the logger; op, id and sq are the call it makes next,
\* ok and qq are the locals of Store and Pop
ThreadIdle ==
  [pc |-> "idle", op |-> "", id |-> 0, sq |-> NoEvent, ok |-> FALSE, qq |-> <<>>]

RECURSIVE TotalIssued(_)
\* queries started so far by the calls 1..n
TotalIssued(n) == IF n = 0 THEN 0 ELSE issuedQ[n] + TotalIssued(n - 1)

Init ==
  /\ isDevel \in BOOLEAN
  /\ nextID = NewSqlQueryLoggerNextID
  /\ data = NewSqlQueryLoggerData
  /\ pc = [c \in Calls |-> "start"]
  /\ req = [c \in Calls |-> [kind |-> "none", d |-> FALSE, s |-> FALSE]]
  /\ logQuery = [c \in Calls |-> TRUE]
  /\ debugID = [c \in Calls |-> 0]
  /\ ctx = [c \in Calls |-> Background]
  /\ inflight = [c \in Calls |-> {}]
  /\ issuedQ = [c \in Calls |-> 0]
  /\ qq = [c \in Calls |-> <<>>]
  /\ inner = [c \in Calls |-> NoResponse]
  /\ resp = [c \in Calls |-> NoResponse]
  /\ asked = [c \in Calls |-> [d |-> 0, s |-> 0]]
  /\ issued = <<>>
  /\ hookErr = [c \in Calls |-> 0]
  /\ traced = [c \in Calls |-> ""]
  /\ storeCalls = [c \in Calls |-> 0]
  /\ raised = [c \in Calls |-> <<>>]
  /\ thrown = [c \in Calls |-> <<>>]
  /\ hist = <<>>
  /\ tpc = "start"
  /\ tin = [req |-> [kind |-> "none", d |-> FALSE, s |-> FALSE], asked |-> 0,
            inner |-> NoResponse, traced |-> "", raised |-> <<>>, thrown |-> <<>>]
  /\ twall = 0
  /\ tresp = NoResponse
  /\ elog = ErrorLoggerStart
  /\ sen = SentryStart
  /\ xr = XRequestIDStart
  /\ ql2 = [nextID |-> NewSqlQueryLoggerNextID, data |-> NewSqlQueryLoggerData]
  /\ mu = 0
  /\ th = [t \in Threads |-> ThreadIdle]

\* lines 400-417: the gate; a denied call invokes h with the context it got
Gate(c, rs) ==
  /\ pc[c] = "start"
  /\ \E r \in rs :
       /\ req' = [req EXCEPT ![c] = r]
       /\ asked' = [asked EXCEPT ![c] = SQLLoggerAsked(isDevel, r)]
       /\ IF SQLLoggerTraced(isDevel, r)
          THEN /\ pc' = [pc EXCEPT ![c] = "nextid"]
               /\ traced' = [traced EXCEPT ![c] = "yes"]
               /\ logQuery' = [logQuery EXCEPT ![c] = SQLLoggerLogQuery(isDevel, r)]
          ELSE /\ pc' = [pc EXCEPT ![c] = "bypass"]
               /\ traced' = [traced EXCEPT ![c] = "no"]
               /\ UNCHANGED logQuery
  /\ UNCHANGED <<isDevel, loggerVars, debugID, ctx, inflight, issuedQ, qq, inner,
                 resp, issued, hookErr, storeCalls, bufVars, panicVars, outerVars, sharedVars, raceVars, timingVars>>

\* lines 419-420: debugID := ql.NextID(); ctx = NewDebugIDContext(ctx, debugID)
CallNextID(c) ==
  /\ pc[c] = "nextid"
  /\ nextID' = NextID(nextID)
  /\ debugID' = [debugID EXCEPT ![c] = nextID']
  /\ ctx' = [ctx EXCEPT ![c] = NewDebugIDContext(ctx[c], nextID')]
  /\ issued' = Append(issued, nextID')
  /\ pc' = [pc EXCEPT ![c] = "push"]
  /\ UNCHANGED <<isDevel, data, req, logQuery, inflight, issuedQ, qq, inner, resp,
                 asked, hookErr, traced, storeCalls, bufVars, panicVars, outerVars, sharedVars, raceVars, timingVars>>

\* line 421: ql.Push(debugID); then h is invoked
CallPush(c) ==
  /\ pc[c] = "push"
  /\ data' = Push(data, debugID[c])
  /\ pc' = [pc EXCEPT ![c] = "inner"]
  /\ UNCHANGED <<isDevel, nextID, req, logQuery, debugID, ctx, inflight, issuedQ,
                 qq, inner, resp, asked, issued, hookErr, traced, storeCalls, bufVars, panicVars, outerVars, sharedVars, raceVars,
                 timingVars>>

\* the inner invocation starts a query: go-pg calls BeforeQuery
BeforeQuery(c, qs) ==
  /\ pc[c] \in {"inner", "bypass"}
  /\ TotalIssued(NumCalls) < MaxQueries
  /\ \E q \in qs :
       LET cx == WithGroups(ctx[c], q.groups)
           ev == [Query |-> q.Query, fmtErr |-> q.fmtErr, cx |-> cx,
                  started |-> BeforeQueryStarted(cx),
                  names |-> q.groups,
                  tag |-> <<c, issuedQ[c] + 1>>]
       IN inflight' = [inflight EXCEPT ![c] = @ \cup {ev}]
  /\ issuedQ' = [issuedQ EXCEPT ![c] = @ + 1]
  /\ UNCHANGED <<isDevel, loggerVars, pc, req, logQuery, debugID, ctx, qq, inner,
                 resp, asked, issued, hookErr, traced, storeCalls, bufVars, panicVars, outerVars, sharedVars, raceVars, timingVars>>

\* a query finishes: go-pg calls AfterQuery, possibly after the call is over
AfterQuery(c, els) ==
  /\ \E q \in inflight[c], el \in els :
       /\ inflight' = [inflight EXCEPT ![c] = @ \ {q}]
       /\ data' = AfterQueryData(data, q, el)
       /\ hookErr' = [hookErr EXCEPT ![c] =
                        IF AfterQueryOutcome(q) = "error" THEN @ + 1 ELSE @]
       /\ storeCalls' = [storeCalls EXCEPT ![c] =
                           IF AfterQueryOutcome(q) = "store" /\ pc[c] \in {"inner", "pop"}
                           THEN @ + 1 ELSE @]
  /\ UNCHANGED <<isDevel, nextID, pc, req, logQuery, debugID, ctx, issuedQ, qq,
                 inner, resp, asked, issued, traced, bufVars, panicVars, outerVars, sharedVars, raceVars, timingVars>>

\* h returns a response; a denied call returns it as it is (lines 406, 411)
InnerReturn(c, rs) ==
  /\ pc[c] \in {"inner", "bypass"}
  /\ \E r \in rs :
       /\ inner' = [inner EXCEPT ![c] = r]
       /\ IF pc[c] = "bypass"
          THEN /\ resp' = [resp EXCEPT ![c] = SQLLoggerBypass(r)]
               /\ pc' = [pc EXCEPT ![c] = "done"]
          ELSE /\ pc' = [pc EXCEPT ![c] = "pop"]
               /\ UNCHANGED resp
  /\ UNCHANGED <<isDevel, loggerVars, req, logQuery, debugID, ctx, inflight,
                 issuedQ, qq, asked, issued, hookErr, traced, storeCalls, bufVars, panicVars, outerVars, sharedVars, raceVars,
                 timingVars>>

\* values a handler may panic with
PanicValues == {"boom", "runtime error"}

\* WithSQLLogger that recovers the panic of h
SQLLoggerRecover(v) == [panic |-> FALSE, value |-> v]

\* line 423: h is called without a defer and without a recover around it,
\* so its panic unwinds through WithSQLLogger with its value
SQLLoggerUnwind(v) == [panic |-> TRUE, value |-> v]

\* h panics; nothing after line 423 runs
InnerPanic(c, vs) ==
  /\ pc[c] \in {"inner", "bypass"}
  /\ \E v \in vs :
       LET u == SQLLoggerUnwind(v)
       IN /\ raised' = [raised EXCEPT ![c] = <<v>>]
          /\ IF u.panic
             THEN /\ pc' = [pc EXCEPT ![c] = "panicked"]
                  /\ thrown' = [thrown EXCEPT ![c] = <<u.value>>]
                  /\ UNCHANGED resp
             ELSE /\ pc' = [pc EXCEPT ![c] = "done"]
                  /\ resp' = [resp EXCEPT ![c] = NoResponse]
                  /\ UNCHANGED thrown
  /\ UNCHANGED <<isDevel, loggerVars, req, logQuery, debugID, ctx, inflight,
                 issuedQ, qq, inner, asked, issued, hookErr, traced,
                 storeCalls, bufVars, timingVars, outerVars, sharedVars, raceVars>>

\* line 428: qq := ql.Pop(debugID)
CallPop(c) ==
  /\ pc[c] = "pop"
  /\ qq' = [qq EXCEPT ![c] = PopResult(data, debugID[c])]
  /\ data' = PopData(data, debugID[c])
  /\ pc' = [pc EXCEPT ![c] = "ext"]
  /\ UNCHANGED <<isDevel, nextID, req, logQuery, debugID, ctx, inflight, issuedQ,
                 inner, resp, asked, issued, hookErr, traced, storeCalls, bufVars, panicVars, outerVars, sharedVars, raceVars,
                 timingVars>>

\* lines 424-426 and 430-443: the extensions are written, resp is returned
Finish(c) ==
  /\ pc[c] = "ext"
  /\ resp' = [resp EXCEPT ![c] = SQLLoggerResponse(inner[c], qq[c], logQuery[c])]
  /\ pc' = [pc EXCEPT ![c] = "done"]
  /\ UNCHANGED <<isDevel, loggerVars, req, logQuery, debugID, ctx, inflight,
                 issuedQ, qq, inner, asked, issued, hookErr, traced, storeCalls,
                 bufVars, panicVars, outerVars, sharedVars, raceVars, timingVars>>

\* inputs of the concurrent specification: one request that is absent and
\* one that allows tracing, one inner response, one query text
ConcRequests ==
  { [kind |-> "none", d |-> FALSE, s |-> FALSE],
    [kind |-> "http", d |-> TRUE, s |-> FALSE] }

ConcResponses == { [Result |-> "ok", Error |-> 0, Extensions |-> NilExtensions] }

ConcQueries == { [Query |-> "q1", fmtErr |-> FALSE, groups |-> <<>>] }

ConcElapsed == {600000}

ConcPanics == {"boom"}

\* NumCalls calls run concurrently through one WithSQLLogger
Next ==
  \E c \in Calls :
    \/ Gate(c, ConcRequests)
    \/ CallNextID(c)
    \/ CallPush(c)
    \/ BeforeQuery(c, ConcQueries)
    \/ AfterQuery(c, ConcElapsed)
    \/ InnerReturn(c, ConcResponses)
    \/ InnerPanic(c, ConcPanics)
    \/ CallPop(c)
    \/ Finish(c)

Spec == Init /\ [][Next]_vars


\* ------------------------------------------------- the buffer on its own
BufIDs == 0..MaxBufID

\* the event of the n-th operation
BufEvent(n) == [Query |-> "q1", Group |-> <<>>, Duration |-> 0, tag |-> <<0, n>>]

\* ql.Push(id)
BufPush(id) ==
  /\ Len(hist) < MaxOps
  /\ data' = Push(data, id)
  /\ hist' = Append(hist, [op |-> "Push", id |-> id, ev |-> <<>>, ret |-> <<>>])
  /\ UNCHANGED <<isDevel, nextID, callVars, timingVars, panicVars, outerVars, sharedVars, raceVars>>

\* ql.Store(id, sq)
BufStore(id) ==
  /\ Len(hist) < MaxOps
  /\ LET sq == BufEvent(Len(hist) + 1)
     IN /\ data' = Store(data, id, sq)
        /\ hist' = Append(hist, [op |-> "Store", id |-> id, ev |-> <<sq>>, ret |-> <<>>])
  /\ UNCHANGED <<isDevel, nextID, callVars, timingVars, panicVars, outerVars, sharedVars, raceVars>>

\* ql.Pop(id)
BufPop(id) ==
  /\ Len(hist) < MaxOps
  /\ data' = PopData(data, id)
  /\ hist' = Append(hist, [op |-> "Pop", id |-> id, ev |-> <<>>,
                           ret |-> PopResult(data, id)])
  /\ UNCHANGED <<isDevel, nextID, callVars, timingVars, panicVars, outerVars, sharedVars, raceVars>>

NextBuffer ==
  \E id \in BufIDs :
    \/ BufPush(id)
    \/ BufStore(id)
    \/ BufPop(id)

SpecBuffer == Init /\ [][NextBuffer]_vars

\* ------------------------------------------------------------ WithTiming
Typed(t, v) == [t |-> t, v |-> v]

\* the gate of WithTiming without the isDevel shortcut
TimingTracedNoDevel(devel, r) == ~RequestMissing(r) /\ allowDebugFunc(r)

\* lines 353-363: the call is timed
TimingTraced(devel, r) ==
  devel \/ (~RequestMissing(r) /\ allowDebugFunc(r))

\* calls of allowDebugFunc made by WithTiming's gate
TimingAsked(devel, r) == IF ~devel /\ ~RequestMissing(r) THEN 1 ELSE 0

\* remote.(int64) / diff.(int64) panic on any other dynamic type
TimingPanics(r) ==
  \/ HasKey(r.Extensions.m, "DurationRemote") /\ r.Extensions.m["DurationRemote"].t # "int64"
  \/ HasKey(r.Extensions.m, "DurationDiff") /\ r.Extensions.m["DurationDiff"].t # "int64"

\* the total clamped at 0
TimingTotalClamped(r, wall) ==
  LET m == r.Extensions.m
      t == wall \div Millisecond
           - (IF HasKey(m, "DurationRemote") THEN m["DurationRemote"].v ELSE 0)
           - (IF HasKey(m, "DurationDiff") THEN m["DurationDiff"].v ELSE 0)
  IN IF t < 0 THEN 0 ELSE t

\* lines 372-378
TimingTotal(r, wall) ==
  LET m == r.Extensions.m
      t0 == wall \div Millisecond
      t1 == IF HasKey(m, "DurationRemote") THEN t0 - m["DurationRemote"].v ELSE t0
  IN IF HasKey(m, "DurationDiff") THEN t1 - m["DurationDiff"].v ELSE t1

\* resp.Extensions["DurationLocal"] != -1: the constant -1 becomes an int
\* in the comparison of interface values
TimingLocalIsSentinel(r) ==
  /\ HasKey(r.Extensions.m, "DurationLocal")
  /\ r.Extensions.m["DurationLocal"] = Typed("int", -1)

\* lines 356 and 361: a call that is not timed returns h's response as it is
TimingBypass(r) == r

\* lines 367-385: the response of a timed call
TimingResponse(r, wall) ==
  LET ext0 == IF r.Extensions.nil THEN MakeExtensions ELSE r.Extensions
  IN IF TimingLocalIsSentinel(r) THEN [r EXCEPT !.Extensions = ext0]
     ELSE [r EXCEPT !.Extensions = ExtPut(ext0, "DurationLocal", Int64(TimingTotal(r, wall)))]

\* the extension maps an inner layer may hand to WithTiming
TimingRemotes == {<<>>, <<Typed("int64", 40)>>, <<Typed("int64", 150)>>, <<Typed("int", 40)>>}

TimingDiffs == {<<>>, <<Typed("int64", 10)>>, <<Typed("float64", 10)>>}

TimingLocals == {<<>>, <<Typed("int", -1)>>, <<Typed("int64", -1)>>, <<Typed("int64", 7)>>}

TimingExt(re, di, lo) ==
  LET ks == (IF re # <<>> THEN {"DurationRemote"} ELSE {})
            \cup (IF di # <<>> THEN {"DurationDiff"} ELSE {})
            \cup (IF lo # <<>> THEN {"DurationLocal"} ELSE {})
  IN [nil |-> FALSE,
      m |-> [k \in ks |-> IF k = "DurationRemote" THEN re[1]
                          ELSE IF k = "DurationDiff" THEN di[1] ELSE lo[1]]]

TimingInnerResponses ==
  { [Result |-> "ok", Error |-> 0, Extensions |-> NilExtensions],
    [Result |-> "", Error |-> 500, Extensions |-> NilExtensions] }
  \cup { [Result |-> "ok", Error |-> 0, Extensions |-> TimingExt(re, di, lo)] :
           re \in TimingRemotes, di \in TimingDiffs, lo \in TimingLocals }

\* wall time of the inner invocation in nanoseconds
TimingWalls == {100000000, 1999999}

TimingGate ==
  /\ tpc = "start"
  /\ \E r \in Requests :
       /\ tin' = [tin EXCEPT !.req = r, !.asked = TimingAsked(isDevel, r),
                             !.traced = IF TimingTraced(isDevel, r) THEN "yes" ELSE "no"]
       /\ tpc' = IF TimingTraced(isDevel, r) THEN "inner" ELSE "bypass"
  /\ UNCHANGED <<isDevel, loggerVars, callVars, bufVars, panicVars, outerVars, sharedVars, raceVars, twall, tresp>>

\* h returns
TimingInnerReturn(rs) ==
  /\ tpc \in {"inner", "bypass"}
  /\ \E r \in rs, w \in TimingWalls :
       /\ tin' = [tin EXCEPT !.inner = r]
       /\ twall' = w
       /\ IF tpc = "bypass"
          THEN tpc' = "done" /\ tresp' = TimingBypass(r)
          ELSE tpc' = "compose" /\ UNCHANGED tresp
  /\ UNCHANGED <<isDevel, loggerVars, callVars, bufVars, panicVars, outerVars, sharedVars, raceVars>>

\* WithTiming that recovers the panic of h
TimingRecover(v) == [panic |-> FALSE, value |-> v]

\* line 367: h is called without a defer and without a recover around it
TimingUnwind(v) == [panic |-> TRUE, value |-> v]

\* h panics: the panic unwinds through WithTiming
TimingInnerPanic(vs) ==
  /\ tpc \in {"inner", "bypass"}
  /\ \E v \in vs :
       LET u == TimingUnwind(v)
       IN /\ tin' = [tin EXCEPT !.raised = <<v>>,
                                !.thrown = IF u.panic THEN <<u.value>> ELSE <<>>]
          /\ tpc' = IF u.panic THEN "panicked" ELSE "done"
  /\ UNCHANGED <<isDevel, loggerVars, callVars, bufVars, panicVars, outerVars, sharedVars, raceVars, twall,
                 tresp>>

\* lines 368-385
TimingCompose ==
  /\ tpc = "compose"
  /\ IF TimingPanics(tin.inner)
     THEN tpc' = "panicked" /\ UNCHANGED tresp
     ELSE tpc' = "done" /\ tresp' = TimingResponse(tin.inner, twall)
  /\ UNCHANGED <<isDevel, loggerVars, callVars, bufVars, panicVars, outerVars, sharedVars, raceVars, tin, twall>>

NextTiming ==
  \/ TimingGate
  \/ TimingInnerReturn(TimingInnerResponses)
  \/ TimingInnerPanic(PanicValues)
  \/ TimingCompose

SpecTiming == Init /\ [][NextTiming]_vars

\* ------------------------------------------------------ the chain
\* One call runs through WithTiming around WithSQLLogger around the
\* handler, the order newArithServer registers them in, with every input
\* of the bounds.  The h of WithTiming is the closure of WithSQLLogger.

\* WithTiming invokes h with the context and the request it was given
ChainEnter ==
  /\ tpc \in {"inner", "bypass"}
  /\ Gate(1, {tin.req})

\* WithSQLLogger has returned: this is the return of WithTiming's h
ChainReturn ==
  /\ pc[1] = "done"
  /\ TimingInnerReturn({resp[1]})

\* the panic that left WithSQLLogger reaches WithTiming
ChainPanic ==
  /\ pc[1] = "panicked"
  /\ TimingInnerPanic({thrown[1][1]})

NextCall ==
  \/ TimingGate
  \/ ChainEnter
  \/ CallNextID(1)
  \/ CallPush(1)
  \/ BeforeQuery(1, QueryInputs)
  \/ AfterQuery(1, Elapsed)
  \/ InnerReturn(1, InnerResponses)
  \/ InnerPanic(1, PanicValues)
  \/ CallPop(1)
  \/ Finish(1)
  \/ ChainReturn
  \/ ChainPanic
  \/ TimingCompose

SpecCall == Init /\ [][NextCall]_vars

\* ---------------------------------------------------- the error loggers
\* The values a LogAttrs callback puts in its []any: an error, given by
\* its Unwrap chain from the outside in, or a value that is no error.
ErrSkipLog == [t |-> "error", chain |-> <<"skip log">>]

AnyValues ==
  { ErrSkipLog,
    [t |-> "error", chain |-> <<"arith", "skip log">>],
    [t |-> "error", chain |-> <<"sql: no rows">>],
    [t |-> "string", chain |-> <<"user">>] }

\* errors.Is: target is e or one of the errors e wraps
ErrorsIs(e, target) ==
  \E i \in 1..Len(e.chain) : e.chain[i] = target.chain[1]

\* results of a LogAttrs callback: nil, one value, two values
LogAttrsResults ==
  {<<>>} \cup {<<a>> : a \in AnyValues}
  \cup {<<ErrSkipLog, ErrSkipLog>>, <<[t |-> "string", chain |-> <<"user">>], ErrSkipLog>>}

\* the fn argument of WithErrorSLog: nil (<<>>) or a callback, given by
\* the []any it returns
LogAttrsFuncs == {<<>>} \cup {<<args>> : args \in LogAttrsResults}

\* the condition both loggers test on the inner response: code 500 only
IsInternalErrorOnly500(r) ==
  r.Error # <<>> /\ r.Error[1].Code = StatusInternalServerError

\* the condition both loggers test on the inner response
IsInternalError(r) ==
  /\ r.Error # <<>>
  /\ (r.Error[1].Code = StatusInternalServerError \/ r.Error[1].Code < 0)

\* "remove sensitive error data from response"
RemoveSensitive(r) ==
  [r EXCEPT !.Error = NewError(r.Error[1].Code, "Internal error", <<>>)]

\* WithErrorSLog leaves right after the callback: fn is not nil and its
\* result is one error that is, or wraps, ErrSkipLog
ErrorSLogSkips(fn) ==
  /\ fn # <<>>
  /\ Len(fn[1]) = 1
  /\ fn[1][1].t = "error"
  /\ ErrorsIs(fn[1][1], ErrSkipLog)

\* what WithErrorLogger does with the response r of h: the number of pf
\* calls, of sentry.CaptureException calls, and the response it returns
ErrorLoggerOutcome(r) ==
  IF IsInternalError(r)
  THEN [prints |-> 1, captures |-> 1, out |-> RemoveSensitive(r)]
  ELSE [prints |-> 0, captures |-> 0, out |-> r]

\* the same for WithErrorSLog with the callback fn
ErrorSLogOutcome(fn, r) ==
  IF ErrorSLogSkips(fn)
  THEN [prints |-> 0, captures |-> 0, out |-> r]
  ELSE ErrorLoggerOutcome(r)

\* the interceptor is built (mw, fn) and invoked: it calls h first
ErrorLoggerEnter ==
  /\ elog.pc = "start"
  /\ \E mw \in {"WithErrorLogger", "WithErrorSLog"} :
       \E fn \in (IF mw = "WithErrorSLog" THEN LogAttrsFuncs ELSE {<<>>}) :
         elog' = [elog EXCEPT !.pc = "inner", !.mw = mw, !.fn = fn]
  /\ UNCHANGED <<isDevel, loggerVars, callVars, bufVars, panicVars, sharedVars, raceVars,
                 timingVars, sen, xr>>

\* h returns r
ErrorLoggerInnerReturn(rs) ==
  /\ elog.pc = "inner"
  /\ \E r \in rs : elog' = [elog EXCEPT !.pc = "returned", !.inner = r]
  /\ UNCHANGED <<isDevel, loggerVars, callVars, bufVars, panicVars, sharedVars, raceVars,
                 timingVars, sen, xr>>

\* the rest of the interceptor, up to its return
ErrorLoggerFinish ==
  /\ elog.pc = "returned"
  /\ LET o == IF elog.mw = "WithErrorSLog"
              THEN ErrorSLogOutcome(elog.fn, elog.inner)
              ELSE ErrorLoggerOutcome(elog.inner)
     IN elog' = [elog EXCEPT !.pc = "done", !.out = o.out,
                             !.prints = o.prints, !.captures = o.captures]
  /\ UNCHANGED <<isDevel, loggerVars, callVars, bufVars, panicVars, sharedVars, raceVars,
                 timingVars, sen, xr>>

NextError ==
  \/ ErrorLoggerEnter
  \/ ErrorLoggerInnerReturn(ErrorResponses)
  \/ ErrorLoggerFinish

SpecError == Init /\ [][NextError]_vars

\* ---------------------------------------------------------------- WithSLog
\* logger.go:51: len(args) == 1 && errors.Is(ErrSkipLog, args[0].(error)).
\* The type assertion has no ok form, so a single value that is no error
\* panics; errors.Is walks the chain of ErrSkipLog looking for args[0].
SLogOutcome(fn, r) ==
  IF fn # <<>> /\ Len(fn[1]) = 1
  THEN IF fn[1][1].t # "error"
       THEN [panic |-> TRUE, prints |-> 0, out |-> ZeroResponse]
       ELSE IF ErrorsIs(ErrSkipLog, fn[1][1])
       THEN [panic |-> FALSE, prints |-> 0, out |-> r]
       ELSE [panic |-> FALSE, prints |-> 1, out |-> r]
  ELSE [panic |-> FALSE, prints |-> 1, out |-> r]

\* WithSLog is built with fn and invoked: it calls h first
SLogEnter ==
  /\ elog.pc = "start"
  /\ \E fn \in LogAttrsFuncs :
       elog' = [elog EXCEPT !.pc = "inner", !.mw = "WithSLog", !.fn = fn]
  /\ UNCHANGED <<isDevel, loggerVars, callVars, bufVars, panicVars, sharedVars,
                 raceVars, timingVars, sen, xr>>

\* the rest of WithSLog: it returns r, or the panic of line 51 leaves it
SLogFinish ==
  /\ elog.pc = "returned"
  /\ LET o == SLogOutcome(elog.fn, elog.inner)
     IN elog' = [elog EXCEPT !.pc = IF o.panic THEN "panicked" ELSE "done",
                             !.out = o.out, !.prints = o.prints]
  /\ UNCHANGED <<isDevel, loggerVars, callVars, bufVars, panicVars, sharedVars,
                 raceVars, timingVars, sen, xr>>

NextSLog ==
  \/ SLogEnter
  \/ ErrorLoggerInnerReturn(ErrorResponses)
  \/ SLogFinish

SpecSLog == Init /\ [][NextSLog]_vars

\* ------------------------------------------------- the XRequestID handler
\* A string is the sequence of its characters; a header is the list of
\* the values sent under one name, empty when the name is absent.
HexDigits ==
  <<"0", "1", "2", "3", "4", "5", "6", "7", "8", "9", "a", "b", "c", "d", "e", "f">>

\* the characters of the class [a-zA-Z0-9-]
ClassChars ==
  {"a", "b", "c", "d", "e", "f", "g", "h", "i", "j", "k", "l", "m",
   "n", "o", "p", "q", "r", "s", "t", "u", "v", "w", "x", "y", "z",
   "A", "B", "C", "D", "E", "F", "G", "H", "I", "J", "K", "L", "M",
   "N", "O", "P", "Q", "R", "S", "T", "U", "V", "W", "X", "Y", "Z",
   "0", "1", "2", "3", "4", "5", "6", "7", "8", "9", "-"}

\* xRequestIDre.MatchString: the pattern is not anchored, one character
\* of the class anywhere in s is a match
MatchString(s) == \E i \in 1..Len(s) : s[i] \in ClassChars

MaxXRequestIDLen == 32

isValidXRequestID(requestID) ==
  requestID # <<>> /\ Len(requestID) <= MaxXRequestIDLen /\ MatchString(requestID)

RECURSIVE EncodeToString(_)
\* hex.EncodeToString: two lower-case digits for every byte
EncodeToString(b) ==
  IF b = <<>> THEN <<>>
  ELSE <<HexDigits[(b[1] \div 16) + 1], HexDigits[(b[1] % 16) + 1]>>
       \o EncodeToString(Tail(b))

XRequestIDBytes == 16

\* what rand.Read may leave in b; all zero stands for a failed read, whose
\* error the code drops
RandomBlocks ==
  { [i \in 1..XRequestIDBytes |-> (seed * i) % 256] : seed \in {0, 37, 255} }

\* the ids generateXRequestID can return
generateXRequestID == { EncodeToString(b) : b \in RandomBlocks }

\* http.Header for one name: Get, Add, Set
HeaderGet(h) == IF h = <<>> THEN <<>> ELSE h[1]

HeaderAdd(h, v) == Append(h, v)

HeaderSet(h, v) == <<v>>

Repeat(c, n) == [i \in 1..n |-> c]

\* X-Request-ID values a client may send
HeaderValues ==
  { <<>>, <<"a", "b", "c", "-", "1">>, <<"!", "!", "!">>, <<"a", " ", "!">>,
    Repeat("f", MaxXRequestIDLen), Repeat("f", MaxXRequestIDLen + 1) }

\* the X-Request-ID header of an incoming request: absent, one or two values
IncomingHeaders ==
  {<<>>} \cup {<<v>> : v \in HeaderValues}
  \cup {<<v, w>> : v \in HeaderValues, w \in HeaderValues}

\* a request arrives
XRequestIDReceive ==
  /\ xr.pc = "start"
  /\ \E h \in IncomingHeaders : xr' = [xr EXCEPT !.pc = "received", !.incoming = h, !.header = h]
  /\ UNCHANGED <<isDevel, loggerVars, callVars, bufVars, panicVars, sharedVars, raceVars,
                 timingVars, elog, sen>>

\* the handler XRequestID returns, up to its call of next.ServeHTTP
XRequestIDServe ==
  /\ xr.pc = "received"
  /\ LET requestID == HeaderGet(xr.header)
     IN IF ~isValidXRequestID(requestID)
        THEN \E id \in generateXRequestID :
               xr' = [xr EXCEPT !.pc = "next", !.requestID = id,
                                !.header = HeaderAdd(xr.header, id),
                                !.response = HeaderSet(xr.response, id)]
        ELSE xr' = [xr EXCEPT !.pc = "next", !.requestID = requestID,
                              !.response = HeaderSet(xr.response, requestID)]
  /\ UNCHANGED <<isDevel, loggerVars, callVars, bufVars, panicVars, sharedVars, raceVars,
                 timingVars, elog, sen>>

\* downstream, WithHeaders reads the id from the request
XRequestIDDownstream ==
  /\ xr.pc = "next"
  /\ xr' = [xr EXCEPT !.pc = "done", !.downstream = HeaderGet(xr.header)]
  /\ UNCHANGED <<isDevel, loggerVars, callVars, bufVars, panicVars, sharedVars, raceVars,
                 timingVars, elog, sen>>

NextHTTP ==
  \/ XRequestIDReceive
  \/ XRequestIDServe
  \/ XRequestIDDownstream

SpecHTTP == Init /\ [][NextHTTP]_vars

\* ------------------------------------------------------------- WithSentry
\* the untyped nil, as the argument of panic and as the result of recover
Nil == [t |-> "nil", chain |-> <<>>]

\* what the handler may call panic with: an error, a string, nil
SentryPanicValues ==
  { [t |-> "error", chain |-> <<"runtime error">>],
    [t |-> "string", chain |-> <<"boom">>],
    Nil }

\* *runtime.PanicNilError, what panic(nil) becomes from Go 1.21 on
PanicNilError ==
  [t |-> "error", chain |-> <<"panic called with nil argument">>]

\* the values recover() can return for a panic raised with v: panic(nil)
\* yields nil when the program is built with the old setting (a go line
\* below 1.21, as in go.mod, or GODEBUG=panicnil=1), and a PanicNilError
\* otherwise
Recover(v) == IF v = Nil THEN {Nil, PanicNilError} ELSE {v}

\* the err of the deferred function for the value rec of recover():
\* nil (<<>>), rec itself when it is an error, else fmt.Errorf("%v", rec)
SentryErr(rec) ==
  IF rec = Nil THEN <<>>
  ELSE IF rec.t = "error" THEN <<rec>>
  ELSE <<[t |-> "error", chain |-> rec.chain]>>

\* the reports the hub has received after the deferred function
SentryCaptured(hub, err) == IF hub /\ err # <<>> THEN err ELSE <<>>

\* the interceptor is invoked with a context and calls h
SentryEnter ==
  /\ sen.pc = "start"
  /\ \E hub \in BOOLEAN, id \in {"", "abc-1"}, pl \in {"", "ios"} :
       sen' = [sen EXCEPT !.pc = "inner", !.hub = hub, !.xRequestID = id,
                          !.platform = pl]
  /\ UNCHANGED <<isDevel, loggerVars, callVars, bufVars, panicVars, sharedVars, raceVars,
                 timingVars, elog, xr>>

\* h returns r
SentryInnerReturn(rs) ==
  /\ sen.pc = "inner"
  /\ \E r \in rs : sen' = [sen EXCEPT !.pc = "deferred", !.inner = r]
  /\ UNCHANGED <<isDevel, loggerVars, callVars, bufVars, panicVars, sharedVars, raceVars,
                 timingVars, elog, xr>>

\* h panics with v
SentryInnerPanic(vs) ==
  /\ sen.pc = "inner"
  /\ \E v \in vs :
       sen' = [sen EXCEPT !.pc = "deferred", !.panic = <<v>>, !.unwinding = TRUE]
  /\ UNCHANGED <<isDevel, loggerVars, callVars, bufVars, panicVars, sharedVars, raceVars,
                 timingVars, elog, xr>>

\* the deferred function runs, then WithSentry returns: the response of h,
\* or the zero Response after a recovered panic
SentryDeferred ==
  /\ sen.pc = "deferred"
  /\ \E rec \in (IF sen.unwinding THEN Recover(sen.panic[1]) ELSE {Nil}) :
       sen' = [sen EXCEPT
                 !.pc = "done",
                 !.unwinding = FALSE,
                 !.rec = <<rec>>,
                 !.captured = SentryCaptured(sen.hub, SentryErr(rec)),
                 !.tags = IF sen.hub
                          THEN <<[platform |-> sen.platform,
                                  xRequestId |-> sen.xRequestID]>>
                          ELSE <<>>,
                 !.out = IF sen.panic # <<>> THEN ZeroResponse ELSE sen.inner]
  /\ UNCHANGED <<isDevel, loggerVars, callVars, bufVars, panicVars, sharedVars, raceVars,
                 timingVars, elog, xr>>

NextSentry ==
  \/ SentryEnter
  \/ SentryInnerReturn(ErrorResponses)
  \/ SentryInnerPanic(SentryPanicValues)
  \/ SentryDeferred

SpecSentry == Init /\ [][NextSentry]_vars

\* ------------------------------------------------- the hooks on their own
\* The hooks of one logger, called by go-pg for queries that run under any
\* context, next to Push and Pop calls on the same logger.  One query is
\* in flight at a time.
MaxNesting == 2

RECURSIVE Nestings(_)
\* the sequences of at most n nested group names handed to
\* NewSqlGroupContext
Nestings(n) ==
  IF n = 0 THEN {<<>>}
  ELSE Nestings(n - 1)
       \cup {Append(ns, g) : ns \in {x \in Nestings(n - 1) : Len(x) = n - 1},
                             g \in { <<>>, <<"a">>, <<">", "b">> }}

\* contexts a query may run under: no debug id, the id 0, the id 1
HookContexts ==
  { Background, NewDebugIDContext(Background, emptyDebugID),
    NewDebugIDContext(Background, 1) }

HookQueries ==
  [Query : {"q1"}, fmtErr : BOOLEAN, groups : Nestings(MaxNesting)]

\* ql.Push(id) by any holder of the logger
HookPush(ids) ==
  /\ \E id \in ids : data' = Push(data, id)
  /\ UNCHANGED <<isDevel, nextID, callVars, bufVars, timingVars, panicVars, outerVars, sharedVars, raceVars>>

\* ql.Pop(id) by any holder of the logger
HookPop(ids) ==
  /\ \E id \in ids : HasKey(data, id) /\ data' = PopData(data, id)
  /\ UNCHANGED <<isDevel, nextID, callVars, bufVars, timingVars, panicVars, outerVars, sharedVars, raceVars>>

\* go-pg calls BeforeQuery for a query run under one of the contexts
HookBeforeQuery(cxs, qs) ==
  /\ inflight[1] = {}
  /\ issuedQ[1] < MaxQueries
  /\ \E cx0 \in cxs, q \in qs :
       LET cx == WithGroups(cx0, q.groups)
           ev == [Query |-> q.Query, fmtErr |-> q.fmtErr, cx |-> cx,
                  started |-> BeforeQueryStarted(cx),
                  names |-> q.groups,
                  tag |-> <<1, issuedQ[1] + 1>>]
       IN inflight' = [inflight EXCEPT ![1] = {ev}]
  /\ issuedQ' = [issuedQ EXCEPT ![1] = @ + 1]
  /\ UNCHANGED <<isDevel, loggerVars, pc, req, logQuery, debugID, ctx, qq, inner,
                 resp, asked, issued, hookErr, traced, storeCalls, bufVars,
                 panicVars, outerVars, sharedVars, raceVars, timingVars>>

NextHooks ==
  \/ HookPush({emptyDebugID, 1})
  \/ HookPop({emptyDebugID, 1})
  \/ HookBeforeQuery(HookContexts, HookQueries)
  \/ AfterQuery(1, ConcElapsed)

SpecHooks == Init /\ [][NextHooks]_vars

\* ------------------------------------------- Push, Store, Pop step by step
\* Threads call Push, Store and Pop on one logger at the same time; every
\* method holds ql.dataMu from its first statement to its return.  An
\* operation is appended to hist when it unlocks, with what it returned.
RaceIDs == {1}

\* a Lock that does not wait
MutexFreeAlways(m) == TRUE

\* dataMu.Lock() goes through when nobody holds the mutex
MutexFree(m) == m = 0

\* Store that does not look for the session
StoreCheckSkip(d, id) == TRUE

\* lines 529-531: _, ok := ql.data[debugID]
StoreCheck(d, id) == HasKey(d, id)

\* line 534: ql.data[debugID] = append(ql.data[debugID], sq); reading a
\* missing key gives the nil slice
StoreAppend(d, id, sq) ==
  MapPut(d, id, Append(IF HasKey(d, id) THEN d[id] ELSE <<>>, sq))

\* a thread calls Push(id), Store(id, sq) or Pop(id)
RaceCall(t) ==
  /\ th[t].pc = "idle"
  /\ Len(hist) + Cardinality({x \in Threads : th[x].pc # "idle"}) < MaxOps
  /\ \E op \in {"Push", "Store", "Pop"}, id \in RaceIDs :
       th' = [th EXCEPT ![t] =
                [pc |-> "lock", op |-> op, id |-> id,
                 sq |-> IF op = "Store"
                        THEN [Query |-> "q1", Group |-> <<>>, Duration |-> 0,
                              tag |-> <<t, Len(hist)>>]
                        ELSE NoEvent,
                 ok |-> FALSE, qq |-> <<>>]]
  /\ UNCHANGED <<isDevel, loggerVars, callVars, bufVars, timingVars, panicVars,
                 outerVars, sharedVars, mu>>

\* ql.dataMu.Lock()
RaceLock(t) ==
  /\ th[t].pc = "lock"
  /\ MutexFree(mu)
  /\ mu' = t
  /\ th' = [th EXCEPT ![t].pc = IF th[t].op = "Push" THEN "push"
                                ELSE IF th[t].op = "Store" THEN "check"
                                ELSE "read"]
  /\ UNCHANGED <<isDevel, loggerVars, callVars, bufVars, timingVars, panicVars,
                 outerVars, sharedVars>>

\* Push, line 521
RacePush(t) ==
  /\ th[t].pc = "push"
  /\ data' = Push(data, th[t].id)
  /\ th' = [th EXCEPT ![t].pc = "unlock"]
  /\ UNCHANGED <<isDevel, nextID, callVars, bufVars, timingVars, panicVars,
                 outerVars, sharedVars, mu>>

\* Store, lines 529-531: return when the id is unknown
RaceStoreCheck(t) ==
  /\ th[t].pc = "check"
  /\ LET ok == StoreCheck(data, th[t].id)
     IN th' = [th EXCEPT ![t].ok = ok, ![t].pc = IF ok THEN "append" ELSE "unlock"]
  /\ UNCHANGED <<isDevel, loggerVars, callVars, bufVars, timingVars, panicVars,
                 outerVars, sharedVars, mu>>

\* Store, line 534
RaceStoreAppend(t) ==
  /\ th[t].pc = "append"
  /\ data' = StoreAppend(data, th[t].id, th[t].sq)
  /\ th' = [th EXCEPT ![t].pc = "unlock"]
  /\ UNCHANGED <<isDevel, nextID, callVars, bufVars, timingVars, panicVars,
                 outerVars, sharedVars, mu>>

\* Pop, line 541: qq, ok := ql.data[debugID]
RacePopRead(t) ==
  /\ th[t].pc = "read"
  /\ th' = [th EXCEPT ![t].qq = PopResult(data, th[t].id),
                      ![t].ok = HasKey(data, th[t].id),
                      ![t].pc = IF HasKey(data, th[t].id) THEN "delete" ELSE "unlock"]
  /\ UNCHANGED <<isDevel, loggerVars, callVars, bufVars, timingVars, panicVars,
                 outerVars, sharedVars, mu>>

\* Pop, lines 542-544: delete(ql.data, debugID)
RacePopDelete(t) ==
  /\ th[t].pc = "delete"
  /\ data' = PopData(data, th[t].id)
  /\ th' = [th EXCEPT ![t].pc = "unlock"]
  /\ UNCHANGED <<isDevel, nextID, callVars, bufVars, timingVars, panicVars,
                 outerVars, sharedVars, mu>>

\* the deferred ql.dataMu.Unlock(), then the method returns
RaceUnlock(t) ==
  /\ th[t].pc = "unlock"
  /\ mu' = 0
  /\ hist' = Append(hist, [op |-> th[t].op, id |-> th[t].id,
                           ev |-> IF th[t].op = "Store" THEN <<th[t].sq>> ELSE <<>>,
                           ret |-> th[t].qq])
  /\ th' = [th EXCEPT ![t] = ThreadIdle]
  /\ UNCHANGED <<isDevel, loggerVars, callVars, timingVars, panicVars, outerVars, sharedVars>>

NextRace ==
  \E t \in Threads :
    \/ RaceCall(t)
    \/ RaceLock(t)
    \/ RacePush(t)
    \/ RaceStoreCheck(t)
    \/ RaceStoreAppend(t)
    \/ RacePopRead(t)
    \/ RacePopDelete(t)
    \/ RaceUnlock(t)

SpecRace == Init /\ [][NextRace]_vars

\* ------------------------------------------------ two loggers on one db
\* Two servers share one *pg.DB.  Each WithSQLLogger builds its own logger
\* (lines 395-396) and adds it to the hooks of the db, so go-pg calls the
\* BeforeQuery and AfterQuery of both loggers for every query.  Call 1 runs
\* on the first server (nextID, data), call 2 on the second (ql2).
\* call 2, lines 419-420, on the second logger
SecondNextID ==
  /\ pc[2] = "nextid"
  /\ ql2' = [ql2 EXCEPT !.nextID = NextID(ql2.nextID)]
  /\ debugID' = [debugID EXCEPT ![2] = ql2'.nextID]
  /\ ctx' = [ctx EXCEPT ![2] = NewDebugIDContext(ctx[2], ql2'.nextID)]
  /\ pc' = [pc EXCEPT ![2] = "push"]
  /\ UNCHANGED <<isDevel, loggerVars, req, logQuery, inflight, issuedQ, qq, inner,
                 resp, asked, issued, hookErr, traced, storeCalls, bufVars,
                 panicVars, outerVars, raceVars, timingVars>>

\* call 2, line 421
SecondPush ==
  /\ pc[2] = "push"
  /\ ql2' = [ql2 EXCEPT !.data = Push(ql2.data, debugID[2])]
  /\ pc' = [pc EXCEPT ![2] = "inner"]
  /\ UNCHANGED <<isDevel, loggerVars, req, logQuery, debugID, ctx, inflight,
                 issuedQ, qq, inner, resp, asked, issued, hookErr, traced,
                 storeCalls, bufVars, panicVars, outerVars, raceVars, timingVars>>

\* call 2, line 428
SecondPop ==
  /\ pc[2] = "pop"
  /\ qq' = [qq EXCEPT ![2] = PopResult(ql2.data, debugID[2])]
  /\ ql2' = [ql2 EXCEPT !.data = PopData(ql2.data, debugID[2])]
  /\ pc' = [pc EXCEPT ![2] = "ext"]
  /\ UNCHANGED <<isDevel, loggerVars, req, logQuery, debugID, ctx, inflight,
                 issuedQ, inner, resp, asked, issued, hookErr, traced,
                 storeCalls, bufVars, panicVars, outerVars, raceVars, timingVars>>

\* a query of call c finishes: go-pg calls the AfterQuery of both loggers
\* with the context of the query
SharedAfterQuery(c, els) ==
  /\ \E q \in inflight[c], el1 \in els, el2 \in els :
       /\ inflight' = [inflight EXCEPT ![c] = @ \ {q}]
       /\ data' = AfterQueryData(data, q, el1)
       /\ ql2' = [ql2 EXCEPT !.data = AfterQueryData(ql2.data, q, el2)]
       /\ hookErr' = [hookErr EXCEPT ![c] =
                        IF AfterQueryOutcome(q) = "error" THEN @ + 1 ELSE @]
       /\ storeCalls' = [storeCalls EXCEPT ![c] =
                           IF AfterQueryOutcome(q) = "store" /\ pc[c] \in {"inner", "pop"}
                           THEN @ + 1 ELSE @]
  /\ UNCHANGED <<isDevel, nextID, pc, req, logQuery, debugID, ctx, issuedQ, qq,
                 inner, resp, asked, issued, traced, bufVars, panicVars,
                 outerVars, raceVars, timingVars>>

NextShared ==
  \/ \E c \in {1, 2} :
       \/ Gate(c, ConcRequests)
       \/ BeforeQuery(c, ConcQueries)
       \/ SharedAfterQuery(c, ConcElapsed)
       \/ InnerReturn(c, ConcResponses)
       \/ Finish(c)
  \/ CallNextID(1)
  \/ CallPush(1)
  \/ CallPop(1)
  \/ SecondNextID
  \/ SecondPush
  \/ SecondPop

SpecShared == Init /\ [][NextShared]_vars

\* ------------------------------------------------------------ properties
Range(f) == {f[i] : i \in DOMAIN f}

Max(S) == CHOOSE x \in S : \A y \in S : y <= x

\* index of the last operation op on id before position j of h, 0 if none
LastOp(h, j, op, id) ==
  Max({0} \cup {i \in 1..(j - 1) : h[i].op = op /\ h[i].id = id})

\* by the history alone: id has an open session just before position j
OpenAt(h, j, id) == LastOp(h, j, "Push", id) > LastOp(h, j, "Pop", id)

RECURSIVE EventsOf(_, _, _, _)
\* the events of the Store operations on id at positions from..to of h
EventsOf(h, from, to, id) ==
  IF from > to THEN <<>>
  ELSE (IF h[from].op = "Store" /\ h[from].id = id THEN h[from].ev ELSE <<>>)
       \o EventsOf(h, from + 1, to, id)

\* what the Pop at position j has to return
Expected(h, j) ==
  IF OpenAt(h, j, h[j].id)
  THEN EventsOf(h, LastOp(h, j, "Push", h[j].id) + 1, j - 1, h[j].id)
  ELSE <<>>

\* C1 (as claimed): once a traced call has left WithSQLLogger by a panic
\* of its inner invocation, the buffer holds no session for its id.
C1_PopAfterPanic ==
  \A c \in Calls :
    (pc[c] = "panicked" /\ traced[c] = "yes") => ~HasKey(data, debugID[c])

\* C2: the first Pop(id) after a Push(id) returns exactly the events stored
\* for id since that Push and removes the session; a later Pop(id) with no
\* Push(id) in between, and a Pop of an id never pushed, return the empty
\* sequence; a Pop of an id without a session leaves the buffer unchanged.
C2_PopExactlyOnce ==
  /\ [](\A j \in 1..Len(hist) : hist[j].op = "Pop" => hist[j].ret = Expected(hist, j))
  /\ [](Len(hist) > 0 /\ hist[Len(hist)].op = "Pop"
          => ~HasKey(data, hist[Len(hist)].id))
  /\ [][\A id \in BufIDs :
          (Len(hist') = Len(hist) + 1 /\ hist'[Len(hist')].op = "Pop"
             /\ hist'[Len(hist')].id = id)
          => /\ \A x \in BufIDs \ {id} :
                  HasKey(data', x) = HasKey(data, x)
                  /\ (HasKey(data, x) => data'[x] = data[x])
             /\ ~OpenAt(hist, Len(hist) + 1, id) => data' = data]_vars

\* a session is popped with its events and popped again
C2_Witness ==
  /\ Len(hist) >= 4
  /\ \E id \in BufIDs :
       /\ hist[1].op = "Push" /\ hist[1].id = id
       /\ hist[2].op = "Store" /\ hist[2].id = id
       /\ hist[3].op = "Pop" /\ hist[3].id = id /\ hist[3].ret = hist[2].ev
       /\ hist[4].op = "Pop" /\ hist[4].id = id /\ hist[4].ret = <<>>

\* C3: a Store on an id without an open session (before the Push, after the
\* Pop, never pushed) leaves the whole buffer unchanged, and its event is
\* returned by no later Pop.
C3_StoreWithoutSession ==
  /\ [](\A i \in 1..Len(hist) : \A j \in (i + 1)..Len(hist) :
          (hist[i].op = "Store" /\ ~OpenAt(hist, i, hist[i].id) /\ hist[j].op = "Pop")
          => hist[i].ev[1] \notin Range(hist[j].ret))
  /\ [][(Len(hist') = Len(hist) + 1 /\ hist'[Len(hist')].op = "Store"
           /\ ~OpenAt(hist, Len(hist) + 1, hist'[Len(hist')].id))
        => data' = data]_vars

\* a Store before the Push and a Store after the Pop, then a Pop
C3_Witness ==
  /\ Len(hist) = 5
  /\ \E id \in BufIDs :
       /\ hist[1].op = "Store" /\ hist[1].id = id
       /\ hist[2].op = "Push" /\ hist[2].id = id
       /\ hist[3].op = "Pop" /\ hist[3].id = id
       /\ hist[4].op = "Store" /\ hist[4].id = id
       /\ hist[5].op = "Pop" /\ hist[5].id = id
       /\ data = EmptyMap

\* position of event e in the sequence s, 0 if absent
IndexOf(s, e) == Max({0} \cup {i \in 1..Len(s) : s[i] = e})

\* C4: two Stores that took effect in one open session are returned by its
\* Pop in the order they took effect, whatever happened on other ids.
C4_StoreOrder ==
  \A j \in 1..Len(hist) : \A i1 \in 1..(j - 1) : \A i2 \in (i1 + 1)..(j - 1) :
    LET id == hist[j].id
        p == LastOp(hist, j, "Push", id)
    IN (/\ hist[j].op = "Pop"
        /\ OpenAt(hist, j, id)
        /\ p < i1
        /\ hist[i1].op = "Store" /\ hist[i1].id = id
        /\ hist[i2].op = "Store" /\ hist[i2].id = id)
       => /\ IndexOf(hist[j].ret, hist[i1].ev[1]) > 0
          /\ IndexOf(hist[j].ret, hist[i1].ev[1]) < IndexOf(hist[j].ret, hist[i2].ev[1])

\* two Stores of one session, one on another id between them, then the Pop
C4_Witness ==
  /\ Len(hist) = 5
  /\ \E id \in BufIDs : \E other \in BufIDs \ {id} :
       /\ hist[1].op = "Push" /\ hist[1].id = id
       /\ hist[2].op = "Store" /\ hist[2].id = id
       /\ hist[3].op = "Store" /\ hist[3].id = other
       /\ hist[4].op = "Store" /\ hist[4].id = id
       /\ hist[5].op = "Pop" /\ hist[5].id = id
       /\ hist[5].ret = hist[2].ev \o hist[4].ev

\* C5: an event stored against id A is never in what Pop(B) returns for a
\* B different from A.
C5_Isolation ==
  \A i \in 1..Len(hist) : \A j \in 1..Len(hist) :
    (hist[i].op = "Store" /\ hist[j].op = "Pop" /\ hist[i].id # hist[j].id)
    => hist[i].ev[1] \notin Range(hist[j].ret)

\* two sessions are open at once, each gets an event, one is popped
C5_Witness ==
  /\ Len(hist) = 5
  /\ \E a \in BufIDs : \E b \in BufIDs \ {a} :
       /\ hist[1].op = "Push" /\ hist[1].id = a
       /\ hist[2].op = "Push" /\ hist[2].id = b
       /\ hist[3].op = "Store" /\ hist[3].id = a
       /\ hist[4].op = "Store" /\ hist[4].id = b
       /\ hist[5].op = "Pop" /\ hist[5].id = b
       /\ hist[5].ret = hist[4].ev

RECURSIVE TotalPopped(_)
\* number of events the calls 1..n got from their Pop
TotalPopped(n) == IF n = 0 THEN 0 ELSE Len(qq[n]) + TotalPopped(n - 1)

\* the call has its id, has stored exactly one event and has popped
OneEventCall(c) ==
  pc[c] \in {"ext", "done"} /\ traced[c] = "yes" /\ storeCalls[c] = 1

\* C6: every concurrent call that took an id from NextID, pushed it, stored
\* exactly one event and popped it got exactly its own event from Pop; when
\* all the calls did so, the pops returned NumCalls events in total.
C6_ConcurrentCalls ==
  /\ \A c \in Calls :
       OneEventCall(c) => Len(qq[c]) = 1 /\ qq[c][1].tag[1] = c
  /\ (\A c \in Calls : OneEventCall(c)) => TotalPopped(NumCalls) = NumCalls

\* all the calls stored one event each while the sessions of all were open
C6_Witness ==
  /\ \A c \in Calls : OneEventCall(c) /\ pc[c] = "ext"
  /\ \A c \in Calls : qq[c] # <<>>

\* C7: NextID returns 1 first, never 0, a larger value on each later call,
\* no value twice, and never the id of a session that is live.
C7_NextID ==
  /\ Len(issued) > 0 => issued[1] = 1
  /\ \A i \in 1..Len(issued) : issued[i] # emptyDebugID
  /\ \A i \in 1..Len(issued) : \A j \in (i + 1)..Len(issued) : issued[i] < issued[j]
  /\ \A c \in Calls : pc[c] = "push" => ~HasKey(data, debugID[c])
  /\ \A c1 \in Calls : \A c2 \in Calls \ {c1} :
       (traced[c1] = "yes" /\ traced[c2] = "yes"
          /\ pc[c1] # "nextid" /\ pc[c2] # "nextid")
       => debugID[c1] # debugID[c2]

\* a call is handed an id while the session of another call is live
C7_Witness ==
  \E c1 \in Calls : \E c2 \in Calls \ {c1} :
    /\ pc[c1] = "inner" /\ HasKey(data, debugID[c1])
    /\ pc[c2] = "push" /\ debugID[c2] = 2

\* the gate as the specification words it
GateAllows(r) == isDevel \/ (r.kind = "http" /\ r.d)

\* C8: WithTiming and WithSQLLogger trace a call exactly when isDevel is
\* set or a request is attached and allowDebugFunc accepts it; without
\* isDevel and without a request allowDebugFunc is not called.
C8_Gate ==
  /\ traced[1] # "" => ((traced[1] = "yes") <=> GateAllows(req[1]))
  /\ tin.traced # "" => ((tin.traced = "yes") <=> GateAllows(tin.req))
  /\ (traced[1] # "" /\ ~isDevel /\ req[1].kind # "http")
       => traced[1] = "no" /\ asked[1].d = 0 /\ asked[1].s = 0
  /\ (tin.traced # "" /\ ~isDevel /\ tin.req.kind # "http")
       => tin.traced = "no" /\ tin.asked = 0

\* without isDevel, both interceptors trace a call because of its request
C8_Witness ==
  /\ ~isDevel
  /\ tin.traced = "yes" /\ tin.asked = 1
  /\ traced[1] = "yes" /\ asked[1].d = 1
  /\ pc[1] = "done"

\* C9: when the gate denies tracing, WithSQLLogger takes no id, opens no
\* session, publishes no debug id and returns the inner response as it is,
\* with no extension added; WithTiming returns its inner response as it is.
C9_Denied ==
  /\ (traced[1] # "" /\ ~GateAllows(req[1]))
       => /\ nextID = NewSqlQueryLoggerNextID
          /\ issued = <<>>
          /\ data = NewSqlQueryLoggerData
          /\ ctx[1].debugID = <<>>
          /\ pc[1] \notin {"nextid", "push", "inner", "pop", "ext"}
          /\ pc[1] = "done" => resp[1] = inner[1]
  /\ (tin.traced # "" /\ ~GateAllows(tin.req))
       => /\ tpc # "compose"
          /\ tpc = "done" => tresp = tin.inner

\* a denied call that ran queries has returned through both interceptors
C9_Witness ==
  /\ traced[1] = "no" /\ tin.traced = "no"
  /\ pc[1] = "done" /\ tpc = "done"
  /\ issuedQ[1] > 0 /\ inflight[1] = {}
  /\ resp[1].Extensions.nil

\* C10: on a traced call with at least one event the response holds SQL
\* only if isDevel is set or allowDebugFunc and allowSqlDebugFunc both
\* accept the request; with allowDebugFunc accepting and allowSqlDebugFunc
\* refusing (isDevel unset) it holds DurationSQL and no SQL.
C10_SQLStricter ==
  (pc[1] = "done" /\ traced[1] = "yes" /\ Len(qq[1]) > 0)
  => /\ HasKey(resp[1].Extensions.m, "SQL")
          => (isDevel \/ (req[1].kind = "http" /\ req[1].d /\ req[1].s))
     /\ (~isDevel /\ req[1].d /\ ~req[1].s)
          => /\ HasKey(resp[1].Extensions.m, "DurationSQL")
             /\ ~HasKey(resp[1].Extensions.m, "SQL")

\* a traced call with events whose request may see durations only
C10_Witness ==
  /\ pc[1] = "done" /\ traced[1] = "yes" /\ Len(qq[1]) > 0
  /\ ~isDevel /\ req[1].d /\ ~req[1].s
  /\ HasKey(resp[1].Extensions.m, "DurationSQL")

\* value of an extension of h's response, 0 if the key is absent
ExtNumber(r, k) == IF HasKey(r.Extensions.m, k) THEN r.Extensions.m[k].v ELSE 0

\* C11: a traced call gets DurationLocal = wall time in whole milliseconds
\* minus DurationRemote minus DurationDiff (each if present), also when the
\* result is negative: 100 - 40 - 10 = 50 and 100 - 150 - 10 = -60.  (The
\* response that came with DurationLocal already set to the int -1 is left
\* as it is.)
C11_DurationLocal ==
  (tpc = "done" /\ tin.traced = "yes"
     /\ ~(HasKey(tin.inner.Extensions.m, "DurationLocal")
          /\ tin.inner.Extensions.m["DurationLocal"] = [t |-> "int", v |-> -1]))
  => /\ HasKey(tresp.Extensions.m, "DurationLocal")
     /\ tresp.Extensions.m["DurationLocal"].t = "int64"
     /\ tresp.Extensions.m["DurationLocal"].v =
          (twall \div 1000000) - ExtNumber(tin.inner, "DurationRemote")
                               - ExtNumber(tin.inner, "DurationDiff")
     /\ (twall = 100000000 /\ ExtNumber(tin.inner, "DurationRemote") = 40
           /\ ExtNumber(tin.inner, "DurationDiff") = 10)
          => tresp.Extensions.m["DurationLocal"].v = 50
     /\ (twall = 100000000 /\ ExtNumber(tin.inner, "DurationRemote") = 150
           /\ ExtNumber(tin.inner, "DurationDiff") = 10)
          => tresp.Extensions.m["DurationLocal"].v = -60

\* remote and diff together exceed the wall time
C11_Witness ==
  /\ tpc = "done" /\ tin.traced = "yes" /\ twall = 100000000
  /\ ExtNumber(tin.inner, "DurationRemote") = 150
  /\ ExtNumber(tin.inner, "DurationDiff") = 10
  /\ HasKey(tresp.Extensions.m, "DurationLocal")
  /\ tresp.Extensions.m["DurationLocal"].v < 0

\* h's response carries DurationLocal = -1 as an int64
Int64Sentinel(r) ==
  /\ HasKey(r.Extensions.m, "DurationLocal")
  /\ r.Extensions.m["DurationLocal"] = [t |-> "int64", v |-> -1]

\* C12 (as claimed): a DurationLocal that h's response carries as the int64
\* -1 is still -1 after WithTiming; in every other case DurationLocal is
\* overwritten with the composed total.
C12_SentinelKept ==
  (tpc = "done" /\ tin.traced = "yes")
  => IF Int64Sentinel(tin.inner)
     THEN tresp.Extensions.m["DurationLocal"] = tin.inner.Extensions.m["DurationLocal"]
     ELSE tresp.Extensions.m["DurationLocal"] =
            [t |-> "int64",
             v |-> (twall \div 1000000) - ExtNumber(tin.inner, "DurationRemote")
                                        - ExtNumber(tin.inner, "DurationDiff")]

\* C13 (as claimed): whatever h's response holds in its extensions,
\* WithTiming returns normally with h's result and error: it panics only
\* if h panicked.
C13_NeverFails ==
  /\ tpc = "panicked" => tin.raised # <<>>
  /\ tpc = "done" => /\ tresp.Result = tin.inner.Result
                     /\ tresp.Error = tin.inner.Error

\* C14: a panic of the inner invocation leaves WithSQLLogger and WithTiming
\* as a panic with the same value; neither returns a response instead.
C14_PanicPropagates ==
  /\ raised[1] # <<>>
       => pc[1] = "panicked" /\ thrown[1] = raised[1] /\ resp[1] = NoResponse
  /\ tin.raised # <<>>
       => /\ tpc = "panicked" /\ tin.thrown = tin.raised /\ tresp = NoResponse
          /\ tin.thrown = raised[1]

\* the handler's panic has left both interceptors
C14_Witness ==
  /\ raised[1] = <<"boom">> /\ pc[1] = "panicked"
  /\ tpc = "panicked" /\ tin.thrown = <<"boom">>
  /\ traced[1] = "yes"

\* C15: Push(id) leaves id with an empty session and every other session as
\* it was; events stored before a second Push(id) are in no Pop(id) after it.
C15_PushOverwrites ==
  /\ [][\A id \in BufIDs :
          (Len(hist') = Len(hist) + 1 /\ hist'[Len(hist')].op = "Push"
             /\ hist'[Len(hist')].id = id)
          => /\ HasKey(data', id) /\ data'[id] = <<>>
             /\ \A x \in BufIDs \ {id} :
                  HasKey(data', x) = HasKey(data, x)
                  /\ (HasKey(data, x) => data'[x] = data[x])]_vars
  /\ [](\A i \in 1..Len(hist) : \A p \in (i + 1)..Len(hist) :
          \A j \in (p + 1)..Len(hist) :
            (/\ hist[i].op = "Store"
             /\ hist[p].op = "Push" /\ hist[p].id = hist[i].id
             /\ hist[j].op = "Pop" /\ hist[j].id = hist[i].id)
            => hist[i].ev[1] \notin Range(hist[j].ret))

\* an open session with an event is pushed again, gets an event, is popped
C15_Witness ==
  /\ Len(hist) = 5
  /\ \E id \in BufIDs :
       /\ hist[1].op = "Push" /\ hist[1].id = id
       /\ hist[2].op = "Store" /\ hist[2].id = id
       /\ hist[3].op = "Push" /\ hist[3].id = id
       /\ hist[4].op = "Store" /\ hist[4].id = id
       /\ hist[5].op = "Pop" /\ hist[5].id = id /\ hist[5].ret = hist[4].ev

\* C19: when formatting the query fails in AfterQuery for a call with a
\* debug id, nothing is stored and the buffer is unchanged, the error goes
\* to the caller of the hook only (the call's response is untouched), and
\* the failed query is in no Pop result.
C19_FormatFailure ==
  /\ [][\A q \in inflight[1] :
          (inflight'[1] = inflight[1] \ {q} /\ q.fmtErr /\ q.cx.debugID # <<>>)
          => /\ data' = data
             /\ hookErr'[1] = hookErr[1] + 1
             /\ resp' = resp /\ inner' = inner /\ qq' = qq /\ pc' = pc]_vars
  /\ [](\A i \in 1..Len(qq[1]) :
          \A q \in QueryInputs : q.fmtErr => qq[1][i].Query # q.Query)
  /\ [](pc[1] = "done" /\ traced[1] = "yes"
          => resp[1].Result = inner[1].Result /\ resp[1].Error = inner[1].Error)

\* one query of a traced call failed to format, another was stored
C19_Witness ==
  /\ pc[1] = "done" /\ traced[1] = "yes"
  /\ hookErr[1] = 1 /\ Len(qq[1]) = 1
  /\ HasKey(resp[1].Extensions.m, "DurationSQL")

\* C16: WithErrorLogger, for every inner response: an error with code 500
\* or a negative code means pf is called exactly once and the response
\* comes back with the same code, the message "Internal error" and no
\* wrapped Err; in every other case pf is not called and the response is
\* returned as it was.
C16_ErrorLogger ==
  (elog.pc = "done" /\ elog.mw = "WithErrorLogger") =>
    LET r == elog.inner
    IN IF r.Error # <<>> /\ (r.Error[1].Code = 500 \/ r.Error[1].Code < 0)
       THEN /\ elog.prints = 1
            /\ elog.out.Error # <<>>
            /\ elog.out.Error[1].Code = r.Error[1].Code
            /\ elog.out.Error[1].Message = "Internal error"
            /\ elog.out.Error[1].Err = <<>>
            /\ elog.out.Result = r.Result
       ELSE elog.prints = 0 /\ elog.out = r

\* a negative code with a wrapped Err went through WithErrorLogger
C16_Witness ==
  /\ elog.pc = "done" /\ elog.mw = "WithErrorLogger"
  /\ elog.inner.Error # <<>>
  /\ elog.inner.Error[1].Code < 0
  /\ elog.inner.Error[1].Err # <<>>
  /\ elog.prints = 1
  /\ elog.out.Error[1].Message = "Internal error"

\* C17: every response WithErrorSLog returns with an error code of 500 or
\* below zero has the message "Internal error" and no wrapped Err,
\* whatever the LogAttrs callback returned.
C17_AlwaysSanitised ==
  (elog.pc = "done" /\ elog.mw = "WithErrorSLog"
     /\ elog.out.Error # <<>>
     /\ (elog.out.Error[1].Code = 500 \/ elog.out.Error[1].Code < 0))
  => /\ elog.out.Error[1].Message = "Internal error"
     /\ elog.out.Error[1].Err = <<>>

\* C18: for every incoming request the response carries a non-empty
\* X-Request-ID, the handler downstream reads that same value from the
\* request, and a valid incoming id is the one that is used.
C18_SameIDBothSides ==
  xr.pc = "done" =>
    /\ xr.response # <<>>
    /\ HeaderGet(xr.response) # <<>>
    /\ xr.downstream = HeaderGet(xr.response)
    /\ (isValidXRequestID(HeaderGet(xr.incoming))
          => HeaderGet(xr.response) = HeaderGet(xr.incoming))

\* C20: a panic of the inner invocation is recovered, reported to the hub
\* of the context exactly once (not at all without a hub), and WithSentry
\* returns normally; without a panic nothing is reported and the inner
\* response is returned unchanged.
C20_PanicReported ==
  sen.pc = "done" =>
    /\ ~sen.unwinding
    /\ IF sen.panic # <<>>
       THEN Len(sen.captured) = (IF sen.hub THEN 1 ELSE 0)
       ELSE sen.captured = <<>> /\ sen.out = sen.inner

\* C21: on every traced call the steps come in this order with one id:
\* NextID issues it, the context given to the inner invocation carries it,
\* Push(id) precedes the inner invocation, every Store the inner invocation
\* makes finds the session open, Pop(id) follows the return of the inner
\* invocation, and the response is written only after Pop.
C21_StepOrder ==
  /\ [](\A c \in Calls :
          (traced[c] = "yes" /\ pc[c] \notin {"start", "nextid"})
          => /\ debugID[c] # emptyDebugID
             /\ \E i \in 1..Len(issued) : issued[i] = debugID[c]
             /\ DebugIDFromContext(ctx[c]) = debugID[c]
             /\ \A q \in inflight[c] : DebugIDFromContext(q.cx) = debugID[c])
  /\ [][\A c \in Calls :
          traced[c] = "yes" =>
            /\ (debugID[c] # emptyDebugID => debugID'[c] = debugID[c])
            /\ (pc'[c] = "inner" /\ pc[c] # "inner"
                  => /\ pc[c] = "push"
                     /\ HasKey(data', debugID[c])
                     /\ data'[debugID[c]] = <<>>)
            /\ (inflight'[c] # inflight[c] /\ inflight[c] \subseteq inflight'[c]
                  => pc[c] = "inner" /\ HasKey(data, debugID[c]))
            /\ \A q \in inflight[c] :
                 (pc[c] = "inner" /\ ~q.fmtErr /\ inflight'[c] = inflight[c] \ {q})
                 => /\ HasKey(data, debugID[c]) /\ HasKey(data', debugID[c])
                    /\ Len(data'[debugID[c]]) = Len(data[debugID[c]]) + 1
            /\ (qq'[c] # qq[c] \/ (pc[c] = "pop" /\ pc'[c] # "pop")
                  => /\ pc[c] = "pop" /\ inner[c] # NoResponse
                     /\ HasKey(data, debugID[c]) /\ ~HasKey(data', debugID[c]))
            /\ (resp'[c] # resp[c]
                  => pc[c] = "ext" /\ ~HasKey(data, debugID[c]))]_vars

\* a traced call with a stored query has gone through all the steps
C21_Witness ==
  \E c \in Calls :
    /\ pc[c] = "done" /\ traced[c] = "yes"
    /\ Len(qq[c]) = 1
    /\ HasKey(resp[c].Extensions.m, "DurationSQL")

\* C22: as long as no inner invocation has panicked, the open sessions of
\* the buffer are exactly the ids of the traced calls that are between
\* their Push and their Pop, and the buffer is empty once every call has
\* completed.
C22_PushPopMatched ==
  (\A c \in Calls : raised[c] = <<>>) =>
    /\ DOMAIN data =
         {debugID[c] : c \in {x \in Calls : traced[x] = "yes" /\ pc[x] \in {"inner", "pop"}}}
    /\ \A c, e \in Calls :
         (c # e /\ traced[c] = "yes" /\ traced[e] = "yes"
            /\ pc[c] \in {"inner", "pop"} /\ pc[e] \in {"inner", "pop"})
         => debugID[c] # debugID[e]
    /\ ((\A c \in Calls : pc[c] = "done") => data = EmptyMap)

\* every call has completed, all were traced, and a query outlived its call
C22_Witness ==
  /\ \A c \in Calls : pc[c] = "done" /\ traced[c] = "yes" /\ raised[c] = <<>>
  /\ \E c \in Calls : storeCalls[c] = 0 /\ issuedQ[c] = 1 /\ inflight[c] = {}
  /\ data = EmptyMap

RECURSIVE TotalNanos(_, _)
\* the durations of the first n events of s, added up in nanoseconds
TotalNanos(s, n) == IF n = 0 THEN 0 ELSE s[n].Duration + TotalNanos(s, n - 1)

C24_NoIDNotRecorded ==
  /\ [](\A q \in inflight[1] :
          DebugIDFromContext(q.cx) = 0 => ~q.started)
  /\ [][\A q \in inflight[1] :
          (DebugIDFromContext(q.cx) = 0 /\ inflight'[1] = inflight[1] \ {q})
          => /\ data' = data
             /\ hookErr' = hookErr]_vars

\* session 0 is open while a query without a debug id, whose formatting
\* would fail, is in flight
C24_Witness ==
  /\ HasKey(data, 0)
  /\ \E q \in inflight[1] : q.cx.debugID = <<>> /\ q.fmtErr

RECURSIVE JoinNames(_)
\* the names with a ">" between neighbours
JoinNames(names) ==
  IF names = <<>> THEN <<>>
  ELSE IF Len(names) = 1 THEN names[1]
  ELSE names[1] \o <<">">> \o JoinNames(Tail(names))

\* C25: the group of an event stored for a query run under nested
\* NewSqlGroupContext calls g1..gn is the names joined by ">" in nesting
\* order, without a ">" at either end; without a group it is empty.
C25_GroupPath ==
  [][\A q \in inflight[1] :
       (/\ inflight'[1] = inflight[1] \ {q}
        /\ DebugIDFromContext(q.cx) # 0 /\ ~q.fmtErr
        /\ HasKey(data, DebugIDFromContext(q.cx)))
       => LET id == DebugIDFromContext(q.cx)
              e == data'[id][Len(data'[id])]
          IN /\ Len(data'[id]) = Len(data[id]) + 1
             /\ e.tag = q.tag
             /\ e.Group = Trim(JoinNames(q.names), ">")
             /\ (e.Group # <<>> => e.Group[1] # ">" /\ e.Group[Len(e.Group)] # ">")
             /\ (q.names = <<>> => e.Group = <<>>)]_vars

\* an event stored under the nesting "a", ">b" has the group "a>>b", and
\* one stored under "", "a" has the group "a"
C25_Witness ==
  /\ HasKey(data, 1) /\ Len(data[1]) = 2
  /\ data[1][1].Group = <<"a", ">", ">", "b">>
  /\ data[1][2].Group = <<"a">>

\* the Stores on id at the positions from+1..to-1 of h
StoresBetween(h, from, to, id) ==
  {i \in (from + 1)..(to - 1) : h[i].op = "Store" /\ h[i].id = id}

\* C26: of the Stores that ran at the same time on one open id none is lost
\* and none is doubled: the next Pop(id) returns each of their events
\* exactly once, in the order of a serial execution (the order in which
\* the Stores returned).
C26_ConcurrentStores ==
  \A j \in 1..Len(hist) :
    (hist[j].op = "Pop" /\ OpenAt(hist, j, hist[j].id)) =>
      LET id == hist[j].id
          S == StoresBetween(hist, LastOp(hist, j, "Push", id), j, id)
          ret == hist[j].ret
      IN /\ Len(ret) = Cardinality(S)
         /\ \A i \in S :
              Cardinality({k \in 1..Len(ret) : ret[k] = hist[i].ev[1]}) = 1
         /\ \A i1, i2 \in S :
              i1 < i2 => IndexOf(ret, hist[i1].ev[1]) < IndexOf(ret, hist[i2].ev[1])

\* two threads called Store while the other had not returned, then Pop
\* returned both events
C26_Witness ==
  /\ Len(hist) = 4
  /\ hist[1].op = "Push" /\ hist[2].op = "Store" /\ hist[3].op = "Store"
  /\ hist[4].op = "Pop"
  /\ hist[2].ev[1].tag[2] = 1 /\ hist[3].ev[1].tag[2] = 1
  /\ hist[2].ev[1].tag[1] # hist[3].ev[1].tag[1]
  /\ hist[4].ret = hist[2].ev \o hist[3].ev

\* the Pops of h that returned the event e
PopsWith(h, e) ==
  {j \in 1..Len(h) : h[j].op = "Pop" /\ \E k \in 1..Len(h[j].ret) : h[j].ret[k] = e}

\* C27: a Store(id, e) that races with Pop(id) either puts e in what that
\* Pop returns or is dropped, never both; it does not bring the session
\* back after the Pop, and what a Pop returned is not changed by a Store
\* that takes effect later.
C27_StoreVsPop ==
  /\ [](\A i \in 1..Len(hist) :
          hist[i].op = "Store" =>
            LET e == hist[i].ev[1]
                id == hist[i].id
                pops == PopsWith(hist, e)
                held == HasKey(data, id) /\ \E k \in 1..Len(data[id]) : data[id][k] = e
            IN /\ Cardinality(pops) <= 1
               /\ \A j \in pops :
                    /\ j > i /\ hist[j].id = id
                    /\ Cardinality({k \in 1..Len(hist[j].ret) : hist[j].ret[k] = e}) = 1
               /\ ~(held /\ pops # {})
               /\ (~OpenAt(hist, i, id) => pops = {} /\ ~held)
               /\ \A j \in (i + 1)..Len(hist) :
                    (/\ OpenAt(hist, i, id)
                     /\ hist[j].op = "Pop" /\ hist[j].id = id
                     /\ LastOp(hist, j, "Push", id) < i
                     /\ LastOp(hist, j, "Pop", id) < i)
                    => pops = {j})
  /\ [](mu = 0 => \A id \in RaceIDs :
                    HasKey(data, id) <=> OpenAt(hist, Len(hist) + 1, id))
  /\ [][/\ \A j \in 1..Len(hist) : hist'[j] = hist[j]
        /\ \A t \in Threads :
             (th[t].op = "Pop" /\ th[t].pc \in {"delete", "unlock"} /\ th'[t].pc # "idle")
             => th'[t].qq = th[t].qq]_vars

\* a Store was called while Pop had not returned, took the mutex after it
\* and was dropped: the Pop returned the earlier event only, the session
\* is gone
C27_Witness ==
  /\ Len(hist) = 4 /\ mu = 0
  /\ hist[1].op = "Push" /\ hist[2].op = "Store" /\ hist[3].op = "Pop"
  /\ hist[4].op = "Store"
  /\ hist[4].ev[1].tag[2] = 2
  /\ hist[3].ret = hist[2].ev
  /\ data = EmptyMap

\* C28: with two WithSQLLogger middlewares on one db, the events a traced
\* call gets from its Pop all come from queries of that call, never from a
\* query of a call traced at the same time on the other server.
C28_NoCrossTalk ==
  \A c \in {1, 2} :
    \A k \in 1..Len(qq[c]) : qq[c][k].tag[1] = c

\* C29: WithSLog logs every request exactly once after the inner
\* invocation has returned, except that nothing is logged when the callback
\* returned exactly [ErrSkipLog]; for every callback result the call
\* completes and returns the inner response unchanged.
C29_SLogOnce ==
  (elog.mw = "WithSLog" /\ elog.pc \notin {"start", "inner", "returned"}) =>
    /\ elog.pc = "done"
    /\ elog.out = elog.inner
    /\ elog.prints = IF elog.fn = << <<ErrSkipLog>> >> THEN 0 ELSE 1

\* C30: the id XRequestID settles on, whether it is the incoming value it
\* accepted or the one it generated, is non-empty, at most 32 characters
\* long and made of characters from a-z, A-Z, 0-9 and "-" only.
C30_WellFormedID ==
  xr.pc \in {"next", "done"} =>
    /\ xr.requestID # <<>>
    /\ Len(xr.requestID) <= 32
    /\ \A i \in 1..Len(xr.requestID) : xr.requestID[i] \in ClassChars

====
